---- MODULE Spec2Model ----
(***************************************************************************)
(* Socket Mode push-event delivery of slacko (src/src/api/socket_mode.rs): *)
(* the reconnection supervisor (start_with_reconnect), one connection      *)
(* runner (run_connection) with its read loop, and the acknowledgment      *)
(* writer task fed through a bounded mpsc channel.                         *)
(***************************************************************************)
EXTENDS Integers, Sequences, FiniteSets

(* ---------------- bounds of the model ---------------- *)

\* bootstrap requests (open_connection calls) made by one supervisor run
MaxAttempts == 3
\* frames delivered by the server on one connection before it closes or fails
MaxFrames == 2
\* capacity of the ack channel; the source uses 100 (mpsc::channel(100)),
\* scaled down here so that the channel's FIFO behaviour is exercised
AckQueueCapacity == 2
\* bootstrap requests of a supervisor run whose connections carry no data
\* frames (specification SpecBackoff)
BackoffAttempts == 9
\* frames delivered on a connection whose ack channel has the capacity of
\* the source (specification SpecFullQueue)
FullQueueFrames == 102

(* ---------------- program constants ---------------- *)

InitialBackoff == 1
MaxBackoff == 60
\* mpsc::channel::<SocketModeAck>(100)
ChannelCapacity == 100

(* ---------------- input domains ---------------- *)

None == "None"
Absent == "Absent"

\* envelope ids the server may put on the wire
EnvelopeIds == {"e1", "e2"}
\* values of the "type" field the server may put on the wire
TypeStrings == {"events_api", "hello", "disconnect"}
\* JSON values the user handler may return as a response payload
ResponseValues == {"r1"}
\* Option<Value> returned by the handler
HandlerResults == {None} \cup ResponseValues

\* JSON values as far as the decoders look at them: the kind of the value
\* and, for an object, its keys with the kind of each key's value.
JsonAbsent == [kind |-> "absent", fields |-> {}]
JsonNull == [kind |-> "null", fields |-> {}]
JsonString == [kind |-> "string", fields |-> {}]
JsonObject(fields) == [kind |-> "object", fields |-> fields]
\* Option<Value>::None
NoValue == [kind |-> "none", fields |-> {}]

\* Text frames: either not JSON at all, or a JSON object whose fields may be
\* missing.
Garbage == [json |-> FALSE, envelope_id |-> Absent, type |-> Absent,
            accepts_response_payload |-> Absent, payload |-> JsonAbsent]
TextFramesOf(ids, types, flags, payloads) ==
    {Garbage} \cup
    [json : {TRUE},
     envelope_id : ids,
     type : types,
     accepts_response_payload : flags,
     payload : payloads]
TextFrames ==
    TextFramesOf(EnvelopeIds \cup {Absent}, TypeStrings \cup {Absent},
                 {"true", "false", Absent}, {JsonAbsent})

\* the one event a server repeats to fill the ack channel (specification
\* SpecFullQueue)
QueueFrames == TextFramesOf({"e1"}, {"events_api"}, {"false"}, {JsonAbsent})

\* the fields of a payload that decodes as a SlashCommandPayload
SlashCommandFields ==
    {<<"command", "string">>, <<"response_url", "string">>,
     <<"user_id", "string">>, <<"channel_id", "string">>}
\* payloads of envelopes that carry structured events (specification
\* SpecStructured)
StructuredPayloads ==
    {JsonAbsent, JsonNull, JsonString,
     JsonObject({}),
     JsonObject({<<"type", "string">>}),
     JsonObject({<<"type", "number">>}),
     JsonObject(SlashCommandFields),
     JsonObject({<<"command", "string">>, <<"response_url", "string">>}),
     JsonObject(SlashCommandFields \cup {<<"type", "string">>})}
\* type strings given to the classifier alone (specification SpecCodec)
KnownTypeStrings ==
    {"events_api", "interactive", "slash_commands", "hello", "disconnect"}
CodecTypeStrings ==
    KnownTypeStrings \cup {"unknown_type", "", "HELLO", "events_api2"}
StructuredTypes == {"events_api", "interactive", "slash_commands", "hello"}
StructuredFrames ==
    TextFramesOf({"e1"}, StructuredTypes, {"false"}, StructuredPayloads)

(* ---------------- pure functions ---------------- *)

Min(a, b) == IF a < b THEN a ELSE b

\* a bug that does not keep the string of an unknown type
SocketModeEventTypeFrom_Lossy(s) ==
    CASE s = "events_api" -> [tag |-> "EventsApi", s |-> ""]
      [] s = "interactive" -> [tag |-> "Interactive", s |-> ""]
      [] s = "slash_commands" -> [tag |-> "SlashCommands", s |-> ""]
      [] s = "hello" -> [tag |-> "Hello", s |-> ""]
      [] s = "disconnect" -> [tag |-> "Disconnect", s |-> ""]
      [] OTHER -> [tag |-> "Unknown", s |-> ""]

\* impl From<&str> for SocketModeEventType
SocketModeEventTypeFrom(s) ==
    CASE s = "events_api" -> [tag |-> "EventsApi", s |-> ""]
      [] s = "interactive" -> [tag |-> "Interactive", s |-> ""]
      [] s = "slash_commands" -> [tag |-> "SlashCommands", s |-> ""]
      [] s = "hello" -> [tag |-> "Hello", s |-> ""]
      [] s = "disconnect" -> [tag |-> "Disconnect", s |-> ""]
      [] OTHER -> [tag |-> "Unknown", s |-> s]

Hello == [tag |-> "Hello", s |-> ""]

\* serde_json::from_str::<SocketModeEnvelope>: fails on malformed JSON and on
\* a missing envelope_id or type; accepts_response_payload defaults to false.
DecodeOk(text) ==
    text.json /\ text.envelope_id # Absent /\ text.type # Absent

\* payload is an Option<Value> with a default: a missing field and a JSON
\* null both decode to None.
DecodeEnvelope(text) ==
    [envelope_id |-> text.envelope_id,
     envelope_type |-> text.type,
     accepts_response_payload |->
        IF text.accepts_response_payload = Absent
        THEN FALSE ELSE (text.accepts_response_payload = "true"),
     payload |->
        IF text.payload.kind \in {"absent", "null"} THEN NoValue ELSE text.payload]

\* keys of the payload records whose value must be a string when present
EventsApiStringKeys == {"token", "team_id", "api_app_id", "type", "event_id"}
EventsApiKeys == EventsApiStringKeys \cup {"event", "event_time", "authorizations"}
InteractiveStringKeys == {"type", "trigger_id", "response_url"}
SlashCommandStringKeys ==
    {"command", "text", "response_url", "trigger_id", "user_id", "user_name",
     "channel_id", "channel_name", "team_id", "team_domain"}

StringWhere(p, keys) == \A f \in p.fields : f[1] \in keys => f[2] = "string"

\* serde_json::from_value::<EventsApiPayload>: every field is optional
DecodesEventsApiPayload(p) ==
    p.kind = "object" /\ StringWhere(p, EventsApiStringKeys)
\* serde_json::from_value::<InteractivePayload>: "type" is required
DecodesInteractivePayload(p) ==
    /\ p.kind = "object"
    /\ <<"type", "string">> \in p.fields
    /\ StringWhere(p, InteractiveStringKeys)
\* serde_json::from_value::<SlashCommandPayload>: command, response_url,
\* user_id and channel_id are required
DecodesSlashCommandPayload(p) ==
    /\ p.kind = "object"
    /\ SlashCommandFields \subseteq p.fields
    /\ StringWhere(p, SlashCommandStringKeys)

\* the variants of SocketModePayload
PayloadRaw(value) == [variant |-> "Raw", value |-> value, reason |-> ""]
PayloadHello == [variant |-> "Hello", value |-> JsonNull, reason |-> ""]
PayloadDisconnect(reason) ==
    [variant |-> "Disconnect", value |-> JsonNull, reason |-> reason]
\* a decoded record: EventsApiPayload keeps its own fields only, the other
\* two keep the rest of the object in their flattened extra field
PayloadStructured(variant, p) ==
    [variant |-> variant,
     value |-> IF variant = "EventsApi"
               THEN JsonObject({f \in p.fields : f[1] \in EventsApiKeys})
               ELSE p,
     reason |-> ""]

\* a bug that loses the payload when it does not decode
PayloadOf_NullOnError(envelope_type, payload) ==
    CASE envelope_type.tag = "EventsApi" ->
            IF payload # NoValue /\ DecodesEventsApiPayload(payload)
            THEN PayloadStructured("EventsApi", payload)
            ELSE PayloadRaw(JsonNull)
      [] envelope_type.tag = "Interactive" ->
            IF payload # NoValue /\ DecodesInteractivePayload(payload)
            THEN PayloadStructured("Interactive", payload)
            ELSE PayloadRaw(JsonNull)
      [] envelope_type.tag = "SlashCommands" ->
            IF payload # NoValue /\ DecodesSlashCommandPayload(payload)
            THEN PayloadStructured("SlashCommand", payload)
            ELSE PayloadRaw(JsonNull)
      [] envelope_type.tag = "Hello" -> PayloadHello
      [] envelope_type.tag = "Disconnect" ->
            PayloadDisconnect(IF <<"reason", "string">> \in payload.fields
                              THEN "reason" ELSE "unknown")
      [] OTHER -> PayloadRaw(IF payload = NoValue THEN JsonNull ELSE payload)

\* the match on envelope_type in parse_envelope: a structured payload that
\* does not decode is kept as Raw, an absent one becomes Raw(Null)
PayloadOf(envelope_type, payload) ==
    CASE envelope_type.tag = "EventsApi" ->
            IF payload = NoValue THEN PayloadRaw(JsonNull)
            ELSE IF DecodesEventsApiPayload(payload)
                 THEN PayloadStructured("EventsApi", payload)
                 ELSE PayloadRaw(payload)
      [] envelope_type.tag = "Interactive" ->
            IF payload = NoValue THEN PayloadRaw(JsonNull)
            ELSE IF DecodesInteractivePayload(payload)
                 THEN PayloadStructured("Interactive", payload)
                 ELSE PayloadRaw(payload)
      [] envelope_type.tag = "SlashCommands" ->
            IF payload = NoValue THEN PayloadRaw(JsonNull)
            ELSE IF DecodesSlashCommandPayload(payload)
                 THEN PayloadStructured("SlashCommand", payload)
                 ELSE PayloadRaw(payload)
      [] envelope_type.tag = "Hello" -> PayloadHello
      [] envelope_type.tag = "Disconnect" ->
            PayloadDisconnect(IF <<"reason", "string">> \in payload.fields
                              THEN "reason" ELSE "unknown")
      [] OTHER -> PayloadRaw(IF payload = NoValue THEN JsonNull ELSE payload)

\* SocketModeApi::parse_envelope
parse_envelope(envelope) ==
    LET envelope_type == SocketModeEventTypeFrom(envelope.envelope_type)
    IN [envelope_id |-> envelope.envelope_id,
        envelope_type |-> envelope_type,
        accepts_response_payload |-> envelope.accepts_response_payload,
        payload |-> PayloadOf(envelope_type, envelope.payload)]

\* a bug that acknowledges neither hello nor disconnect
NeedsAck_SkipDisconnect(event) ==
    event.envelope_type.tag \notin {"Hello", "Disconnect"}

\* a bug that acknowledges every event, hello included
NeedsAck_Always(event) == event.envelope_id # Absent

\* the test of run_connection that decides whether an event is acknowledged
NeedsAck(event) == event.envelope_type # Hello

\* a bug that echoes a fixed id instead of the envelope's own
SocketModeAck_WrongId(envelope, response) ==
    [envelope_id |-> "e1", payload |-> response]

\* SocketModeAck { envelope_id, payload } as built in run_connection
SocketModeAck(envelope, response) ==
    [envelope_id |-> envelope.envelope_id, payload |-> response]

\* serde_json::to_string(&ack): a JSON object as a set of <<key, value>>
\* pairs; payload is skipped when it is None.
SerializeAck(ack) ==
    {<<"envelope_id", ack.envelope_id>>} \cup
    (IF ack.payload = None THEN {} ELSE {<<"payload", ack.payload>>})

\* JoinHandle::abort on the writer task: cancels a live task (dropping the
\* channel's receiver and any ack the task holds), no effect on a task that
\* has already finished.
AbortWriter(w) == IF w \in {"recv", "send"} THEN "aborted" ELSE w

\* what the log of handler invocations keeps of an event
Seen(event) == [envelope_id |-> event.envelope_id, envelope_type |-> event.envelope_type]

NoAck == [envelope_id |-> Absent, payload |-> None]
NoEvent == [envelope_id |-> Absent, envelope_type |-> [tag |-> "Unknown", s |-> ""],
            accepts_response_payload |-> FALSE, payload |-> PayloadRaw(JsonNull)]
NoEnvelope == [envelope_id |-> Absent, envelope_type |-> "",
               accepts_response_payload |-> FALSE, payload |-> NoValue]

\* decoded envelopes given to parse_envelope alone (specification SpecCodec)
CodecEnvelopes ==
    [envelope_id : {"e1"},
     envelope_type : CodecTypeStrings,
     accepts_response_payload : BOOLEAN,
     payload : {NoValue, JsonObject({<<"reason", "string">>})} \cup
               (StructuredPayloads \ {JsonAbsent, JsonNull})]

(* ---------------- state ---------------- *)

VARIABLES
    supPc,      \* start_with_reconnect: "open", "run", "sleep_open",
                \* "sleep_run", "done", "panicked"
    backoff,    \* the local backoff, seconds
    supResult,  \* value returned by start_with_reconnect: None, "Ok", "Err"
    attempts,   \* open_connection calls made so far
    lastSleep,  \* duration of the latest tokio::time::sleep, 0 if none yet
    rdPc,       \* run_connection: "none", "connecting", "reading", "enqueue",
                \* "returned", "panicked"
    connResult, \* value returned by run_connection: None, "Ok", "Err"
    exitBy,     \* how run_connection ended: None, "handshake", "close",
                \* "eos", "readerr", "enqfail"
    nframes,    \* frames read on the current connection
    ntext,      \* Text frames among them
    nbad,       \* Text frames dropped because they did not decode
    curEnv,     \* the envelope decoded from the latest Text frame
    blocked,    \* ack_tx.send is suspended, waiting for room in the channel
    cur,        \* the event of the latest handler invocation
    resp,       \* what that invocation returned
    pendAck,    \* the ack being passed to ack_tx.send
    handled,    \* events passed to the handler on the current connection
    enqueued,   \* acks accepted by the channel on the current connection
    ackq,       \* content of the ack channel
    wrPc,       \* writer task: "none", "recv", "send", "ended", "aborted"
    wrAck,      \* the ack the writer task took from the channel
    sent,       \* text frames written to the socket by the writer task
    abortPending, \* abort was called while the writer task was being polled
    streak,     \* consecutive failed open_connection calls up to now
    connUrl,    \* the url given to the latest run_connection: k stands for
                \* the url returned by the k-th open_connection call, 0 if none
    hasAppToken,  \* the client was built with an app-level token (xapp-...)
    attemptLimit, \* open_connection calls this run of the model may make
    frameLimit,   \* frames the server delivers on one connection
    queueCapacity, \* capacity of the ack channel
    multiThread   \* the runtime polls the writer task on another worker thread

supVars == <<supPc, backoff, supResult, attempts, lastSleep, streak, connUrl>>
txtVars == <<ntext, nbad, curEnv>>
rdVars == <<rdPc, connResult, exitBy, nframes, txtVars, cur, resp, pendAck, handled,
           enqueued, blocked>>
wrVars == <<ackq, wrPc, wrAck, sent, abortPending>>
\* what no step of the client changes: its configuration and the bounds of
\* its environment
cfgVars == <<hasAppToken, attemptLimit, frameLimit, queueCapacity, multiThread>>
otherVars == <<cfgVars>>
vars == <<supVars, rdVars, wrVars, otherVars>>

\* the receiving half of the channel lives inside the writer task
ReceiverClosed == wrPc \in {"ended", "aborted"}
\* ack_tx lives in run_connection's frame
SenderDropped == rdPc \in {"returned", "panicked", "none"}

\* write_task.abort(): a writer task that is suspended (or has finished) is
\* dealt with at once; one that is being polled on another worker thread is
\* only marked, and runs on to its next suspension point
AbortWriteTask ==
    \/ /\ wrPc' = AbortWriter(wrPc)
       /\ ackq' = << >>
       /\ wrAck' = NoAck
       /\ abortPending' = FALSE
    \/ /\ multiThread
       /\ wrPc \in {"recv", "send"}
       /\ abortPending' = TRUE
       /\ UNCHANGED <<wrPc, ackq, wrAck>>

\* The state before the first call on the client. flavours: whether the
\* runtime may poll the writer task on another worker thread while
\* run_connection runs (multi-thread runtime) or never does (current-thread
\* runtime).
InitOn(pc, envelopes, flavours) ==
    /\ supPc = pc
    /\ backoff = InitialBackoff
    /\ supResult = None
    /\ attempts = 0
    /\ lastSleep = 0
    /\ rdPc = "none"
    /\ connResult = None
    /\ exitBy = None
    /\ nframes = 0
    /\ ntext = 0
    /\ nbad = 0
    /\ blocked = FALSE
    /\ curEnv \in envelopes
    /\ cur = NoEvent
    /\ resp = None
    /\ pendAck = NoAck
    /\ handled = << >>
    /\ enqueued = << >>
    /\ ackq = << >>
    /\ wrPc = "none"
    /\ wrAck = NoAck
    /\ sent = << >>
    /\ abortPending = FALSE
    /\ multiThread \in flavours
    /\ streak = 0
    /\ connUrl = 0
    /\ hasAppToken \in BOOLEAN

\* The writer task is suspended whenever abort is called on it.
InitAt(pc, envelopes) == InitOn(pc, envelopes, {FALSE})

\* what one run of the model explores: bootstrap requests, frames per
\* connection, capacity of the ack channel
BoundedBy(maxAttempts, maxFrames, capacity) ==
    /\ attemptLimit = maxAttempts
    /\ frameLimit = maxFrames
    /\ queueCapacity = capacity

Init ==
    InitAt("open", {NoEnvelope}) /\ BoundedBy(MaxAttempts, MaxFrames, AckQueueCapacity)

(* ---------------- parse_envelope alone ---------------- *)

\* one call of parse_envelope on the envelope in curEnv
ParseEnvelope ==
    /\ supPc = "codec"
    /\ cur' = parse_envelope(curEnv)
    /\ supPc' = "done"
    /\ UNCHANGED <<backoff, supResult, attempts, lastSleep, streak, connUrl>>
    /\ UNCHANGED <<rdPc, connResult, exitBy, nframes, txtVars, resp, pendAck, handled,
                   enqueued, wrVars>>
    /\ UNCHANGED blocked
    /\ UNCHANGED otherVars

(* ---------------- start ---------------- *)

\* start: open_connection() returned Ok, call run_connection with its url
StartOpenConnectionOk ==
    /\ supPc = "start_open"
    /\ hasAppToken
    /\ attempts' = attempts + 1
    /\ connUrl' = attempts + 1
    /\ supPc' = "start_run"
    /\ rdPc' = "connecting"
    /\ UNCHANGED <<backoff, supResult, lastSleep, streak>>
    /\ UNCHANGED <<connResult, exitBy, nframes, txtVars, cur, resp, pendAck, handled,
                   enqueued, wrVars>>
    /\ UNCHANGED blocked
    /\ UNCHANGED otherVars

\* start: open_connection() returned Err, the ? operator returns it
StartOpenConnectionErr ==
    /\ supPc = "start_open"
    /\ attempts' = attempts + 1
    /\ supPc' = "done"
    /\ supResult' = "Err"
    /\ UNCHANGED <<backoff, lastSleep, streak, connUrl, rdVars, wrVars>>
    /\ UNCHANGED otherVars

\* a bug that reports success whatever run_connection returned
StartRunReturned_SwallowsErr ==
    /\ supPc = "start_run"
    /\ rdPc = "returned"
    /\ supPc' = "done"
    /\ supResult' = "Ok"
    /\ UNCHANGED <<backoff, attempts, lastSleep, streak, connUrl, rdVars, wrVars>>
    /\ UNCHANGED otherVars

\* start: run_connection returned, its result is the result of start
StartRunReturned ==
    /\ supPc = "start_run"
    /\ rdPc = "returned"
    /\ supPc' = "done"
    /\ supResult' = connResult
    /\ UNCHANGED <<backoff, attempts, lastSleep, streak, connUrl, rdVars, wrVars>>
    /\ UNCHANGED otherVars

(* ---------------- start_with_reconnect ---------------- *)

\* a bug that forgets to reset the backoff after a successful bootstrap
OpenConnectionOk_NoReset ==
    /\ supPc = "open"
    /\ attempts < attemptLimit
    /\ hasAppToken
    /\ attempts' = attempts + 1
    /\ streak' = 0
    /\ connUrl' = attempts + 1
    /\ backoff' = backoff
    /\ supPc' = "run"
    /\ rdPc' = "connecting"
    /\ connResult' = None
    /\ exitBy' = None
    /\ nframes' = 0
    /\ ntext' = 0
    /\ nbad' = 0
    /\ curEnv' = NoEnvelope
    /\ cur' = NoEvent
    /\ resp' = None
    /\ pendAck' = NoAck
    /\ handled' = << >>
    /\ enqueued' = << >>
    /\ ackq' = << >>
    /\ wrPc' = "none"
    /\ abortPending' = FALSE
    /\ wrAck' = NoAck
    /\ sent' = << >>
    /\ UNCHANGED <<supResult, lastSleep>>
    /\ blocked' = FALSE
    /\ UNCHANGED otherVars

\* a bug that keeps the url of the first bootstrap for later connections
OpenConnectionOk_CachedUrl ==
    /\ supPc = "open"
    /\ attempts < attemptLimit
    /\ hasAppToken
    /\ attempts' = attempts + 1
    /\ streak' = 0
    /\ connUrl' = (IF connUrl = 0 THEN attempts + 1 ELSE connUrl)
    /\ backoff' = InitialBackoff
    /\ supPc' = "run"
    /\ rdPc' = "connecting"
    /\ connResult' = None
    /\ exitBy' = None
    /\ nframes' = 0
    /\ ntext' = 0
    /\ nbad' = 0
    /\ curEnv' = NoEnvelope
    /\ cur' = NoEvent
    /\ resp' = None
    /\ pendAck' = NoAck
    /\ handled' = << >>
    /\ enqueued' = << >>
    /\ ackq' = << >>
    /\ wrPc' = "none"
    /\ abortPending' = FALSE
    /\ wrAck' = NoAck
    /\ sent' = << >>
    /\ UNCHANGED <<supResult, lastSleep>>
    /\ blocked' = FALSE
    /\ UNCHANGED otherVars

\* open_connection() returned Ok: reset the backoff and call run_connection
OpenConnectionOk ==
    /\ supPc = "open"
    /\ attempts < attemptLimit
    /\ hasAppToken
    /\ attempts' = attempts + 1
    /\ streak' = 0
    /\ connUrl' = attempts + 1
    /\ backoff' = InitialBackoff
    /\ supPc' = "run"
    /\ rdPc' = "connecting"
    /\ connResult' = None
    /\ exitBy' = None
    /\ nframes' = 0
    /\ ntext' = 0
    /\ nbad' = 0
    /\ curEnv' = NoEnvelope
    /\ cur' = NoEvent
    /\ resp' = None
    /\ pendAck' = NoAck
    /\ handled' = << >>
    /\ enqueued' = << >>
    /\ ackq' = << >>
    /\ wrPc' = "none"
    /\ abortPending' = FALSE
    /\ wrAck' = NoAck
    /\ sent' = << >>
    /\ UNCHANGED <<supResult, lastSleep>>
    /\ blocked' = FALSE
    /\ UNCHANGED otherVars

\* open_connection() returned Err: sleep for the current backoff
OpenConnectionErr ==
    /\ supPc = "open"
    /\ attempts < attemptLimit
    /\ attempts' = attempts + 1
    /\ streak' = streak + 1
    /\ UNCHANGED connUrl
    /\ supPc' = "sleep_open"
    /\ lastSleep' = backoff
    /\ UNCHANGED <<backoff, supResult, rdVars, wrVars>>
    /\ UNCHANGED otherVars

\* a bug that doubles the backoff without the ceiling
WakeAfterOpenErr_Uncapped ==
    /\ supPc = "sleep_open"
    /\ backoff' = backoff * 2
    /\ supPc' = "open"
    /\ UNCHANGED <<supResult, attempts, lastSleep, streak, connUrl, rdVars, wrVars>>
    /\ UNCHANGED otherVars

\* the sleep after a failed bootstrap is over: double the backoff, continue
WakeAfterOpenErr ==
    /\ supPc = "sleep_open"
    /\ backoff' = Min(backoff * 2, MaxBackoff)
    /\ supPc' = "open"
    /\ UNCHANGED <<supResult, attempts, lastSleep, streak, connUrl, rdVars, wrVars>>
    /\ UNCHANGED otherVars

\* a bug that treats an orderly end like a failure and reconnects
RunReturnedOk_Reconnects ==
    /\ supPc = "run"
    /\ rdPc = "returned"
    /\ connResult = "Ok"
    /\ supPc' = "sleep_run"
    /\ lastSleep' = backoff
    /\ UNCHANGED <<backoff, supResult, attempts, streak, connUrl, rdVars, wrVars>>
    /\ UNCHANGED otherVars

\* run_connection returned Ok(()): break Ok(())
RunReturnedOk ==
    /\ supPc = "run"
    /\ rdPc = "returned"
    /\ connResult = "Ok"
    /\ supPc' = "done"
    /\ supResult' = "Ok"
    /\ UNCHANGED <<backoff, attempts, lastSleep, streak, connUrl, rdVars, wrVars>>
    /\ UNCHANGED otherVars

\* a bug that gives up on a failed connection and returns the error
RunReturnedErr_GivesUp ==
    /\ supPc = "run"
    /\ rdPc = "returned"
    /\ connResult = "Err"
    /\ supPc' = "done"
    /\ supResult' = "Err"
    /\ UNCHANGED <<backoff, attempts, lastSleep, streak, connUrl, rdVars, wrVars>>
    /\ UNCHANGED otherVars

\* a bug that doubles the backoff before sleeping instead of after
RunReturnedErr_DoublesFirst ==
    /\ supPc = "run"
    /\ rdPc = "returned"
    /\ connResult = "Err"
    /\ supPc' = "sleep_run"
    /\ lastSleep' = Min(backoff * 2, MaxBackoff)
    /\ rdPc' = "none"
    /\ connResult' = None
    /\ exitBy' = None
    /\ nframes' = 0
    /\ ntext' = 0
    /\ nbad' = 0
    /\ curEnv' = NoEnvelope
    /\ cur' = NoEvent
    /\ resp' = None
    /\ pendAck' = NoAck
    /\ handled' = << >>
    /\ enqueued' = << >>
    /\ ackq' = << >>
    /\ wrPc' = "none"
    /\ abortPending' = FALSE
    /\ wrAck' = NoAck
    /\ sent' = << >>
    /\ UNCHANGED <<backoff, supResult, attempts, streak, connUrl>>
    /\ blocked' = FALSE
    /\ UNCHANGED otherVars

\* a bug that does not wait for run_connection to return before going on
RunReturnedErr_NotAwaited ==
    /\ supPc = "run"
    /\ rdPc \in {"reading", "returned"}
    /\ supPc' = "sleep_run"
    /\ lastSleep' = backoff
    /\ UNCHANGED <<backoff, supResult, attempts, streak, connUrl, rdVars, wrVars>>
    /\ UNCHANGED otherVars

\* run_connection returned Err: sleep for the current backoff; the locals of
\* the failed run_connection call are gone
RunReturnedErr ==
    /\ supPc = "run"
    /\ rdPc = "returned"
    /\ connResult = "Err"
    /\ supPc' = "sleep_run"
    /\ lastSleep' = backoff
    /\ rdPc' = "none"
    /\ connResult' = None
    /\ exitBy' = None
    /\ nframes' = 0
    /\ ntext' = 0
    /\ nbad' = 0
    /\ curEnv' = NoEnvelope
    /\ cur' = NoEvent
    /\ resp' = None
    /\ pendAck' = NoAck
    /\ handled' = << >>
    /\ enqueued' = << >>
    /\ ackq' = << >>
    /\ wrPc' = "none"
    /\ abortPending' = FALSE
    /\ wrAck' = NoAck
    /\ sent' = << >>
    /\ UNCHANGED <<backoff, supResult, attempts, streak, connUrl>>
    /\ blocked' = FALSE
    /\ UNCHANGED otherVars

\* a bug that grows the backoff by a fixed step instead of doubling it
WakeAfterRunErr_Linear ==
    /\ supPc = "sleep_run"
    /\ backoff' = Min(backoff + 2, MaxBackoff)
    /\ supPc' = "open"
    /\ UNCHANGED <<supResult, attempts, lastSleep, streak, connUrl, rdVars, wrVars>>
    /\ UNCHANGED otherVars

\* the sleep after a failed connection is over: double the backoff, loop
WakeAfterRunErr ==
    /\ supPc = "sleep_run"
    /\ backoff' = Min(backoff * 2, MaxBackoff)
    /\ supPc' = "open"
    /\ UNCHANGED <<supResult, attempts, lastSleep, streak, connUrl, rdVars, wrVars>>
    /\ UNCHANGED otherVars

(* ---------------- run_connection ---------------- *)

\* a bug that spawns the writer task before the handshake is known to succeed
ConnectErr_SpawnsFirst ==
    /\ rdPc = "connecting"
    /\ rdPc' = "returned"
    /\ connResult' = "Err"
    /\ exitBy' = "handshake"
    /\ wrPc' = "recv"
    /\ abortPending' = FALSE
    /\ UNCHANGED <<supVars, nframes, cur, resp, pendAck, handled, enqueued, ackq,
                   wrAck, sent>>
    /\ UNCHANGED txtVars
    /\ UNCHANGED blocked
    /\ UNCHANGED otherVars

\* connect_async failed: return Err before anything is spawned
ConnectErr ==
    /\ rdPc = "connecting"
    /\ rdPc' = "returned"
    /\ connResult' = "Err"
    /\ exitBy' = "handshake"
    /\ UNCHANGED <<supVars, nframes, cur, resp, pendAck, handled, enqueued, wrVars>>
    /\ UNCHANGED txtVars
    /\ UNCHANGED blocked
    /\ UNCHANGED otherVars

\* connect_async succeeded: split the stream, create the channel, spawn the
\* writer task
ConnectOk ==
    /\ rdPc = "connecting"
    /\ rdPc' = "reading"
    /\ wrPc' = "recv"
    /\ abortPending' = FALSE
    /\ ackq' = << >>
    /\ UNCHANGED <<supVars, connResult, exitBy, nframes, cur, resp, pendAck,
                   handled, enqueued, wrAck, sent>>
    /\ UNCHANGED txtVars
    /\ UNCHANGED blocked
    /\ UNCHANGED otherVars

\* a bug that treats a frame that does not decode as a read error
ReadTextUndecodable_Breaks(text) ==
    /\ rdPc = "reading"
    /\ nframes < frameLimit
    /\ ~DecodeOk(text)
    /\ nframes' = nframes + 1
    /\ ntext' = ntext + 1
    /\ nbad' = nbad + 1
    /\ UNCHANGED curEnv
    /\ AbortWriteTask
    /\ rdPc' = "returned"
    /\ connResult' = "Err"
    /\ exitBy' = "readerr"
    /\ UNCHANGED <<supVars, cur, resp, pendAck, handled, enqueued, sent>>
    /\ UNCHANGED blocked
    /\ UNCHANGED otherVars

\* Text frame that does not decode as an envelope: warn, next frame
ReadTextUndecodable(text) ==
    /\ rdPc = "reading"
    /\ nframes < frameLimit
    /\ ~DecodeOk(text)
    /\ nframes' = nframes + 1
    /\ ntext' = ntext + 1
    /\ nbad' = nbad + 1
    /\ UNCHANGED curEnv
    /\ UNCHANGED <<supVars, rdPc, connResult, exitBy, cur, resp, pendAck,
                   handled, enqueued, wrVars>>
    /\ UNCHANGED blocked
    /\ UNCHANGED otherVars

\* a bug that leaves the read loop after dispatching a disconnect envelope
ReadTextEvent_BreaksOnDisconnect(text, response) ==
    /\ rdPc = "reading"
    /\ nframes < frameLimit
    /\ DecodeOk(text)
    /\ LET envelope == DecodeEnvelope(text)
           event == parse_envelope(envelope)
       IN /\ NeedsAck(event)
          /\ cur' = event
          /\ curEnv' = envelope
          /\ resp' = response
          /\ handled' = Append(handled, Seen(event))
          /\ IF event.envelope_type.tag = "Disconnect"
             THEN /\ pendAck' = NoAck
                  /\ rdPc' = "returned"
                  /\ connResult' = "Ok"
                  /\ exitBy' = "close"
                  /\ AbortWriteTask
                  /\ UNCHANGED sent
             ELSE /\ pendAck' = SocketModeAck(envelope, response)
                  /\ rdPc' = "enqueue"
                  /\ UNCHANGED <<connResult, exitBy, wrVars>>
    /\ nframes' = nframes + 1
    /\ ntext' = ntext + 1
    /\ UNCHANGED nbad
    /\ UNCHANGED <<supVars, enqueued>>
    /\ UNCHANGED blocked
    /\ UNCHANGED otherVars

\* Text frame with an envelope that is not hello: call the handler, build the
\* ack and hand it to ack_tx.send
ReadTextEvent(text, response) ==
    /\ rdPc = "reading"
    /\ nframes < frameLimit
    /\ DecodeOk(text)
    /\ LET envelope == DecodeEnvelope(text)
           event == parse_envelope(envelope)
       IN /\ NeedsAck(event)
          /\ cur' = event
          /\ curEnv' = envelope
          /\ resp' = response
          /\ handled' = Append(handled, Seen(event))
          /\ pendAck' = SocketModeAck(envelope, response)
    /\ nframes' = nframes + 1
    /\ ntext' = ntext + 1
    /\ UNCHANGED nbad
    /\ rdPc' = "enqueue"
    /\ UNCHANGED <<supVars, connResult, exitBy, enqueued, wrVars>>
    /\ UNCHANGED blocked
    /\ UNCHANGED otherVars

\* Text frame with a hello envelope: call the handler, drop its result
ReadTextHello(text, response) ==
    /\ rdPc = "reading"
    /\ nframes < frameLimit
    /\ DecodeOk(text)
    /\ LET envelope == DecodeEnvelope(text)
           event == parse_envelope(envelope)
       IN /\ ~NeedsAck(event)
          /\ cur' = event
          /\ curEnv' = envelope
          /\ resp' = response
          /\ handled' = Append(handled, Seen(event))
    /\ nframes' = nframes + 1
    /\ ntext' = ntext + 1
    /\ UNCHANGED nbad
    /\ UNCHANGED <<supVars, rdPc, connResult, exitBy, pendAck, enqueued, wrVars>>
    /\ UNCHANGED blocked
    /\ UNCHANGED otherVars

\* a bug that catches the panic and acknowledges the event without a payload
ReadTextHandlerPanics_Caught(text) ==
    /\ rdPc = "reading"
    /\ nframes < frameLimit
    /\ DecodeOk(text)
    /\ NeedsAck(parse_envelope(DecodeEnvelope(text)))
    /\ cur' = parse_envelope(DecodeEnvelope(text))
    /\ curEnv' = DecodeEnvelope(text)
    /\ pendAck' = SocketModeAck(DecodeEnvelope(text), None)
    /\ nframes' = nframes + 1
    /\ ntext' = ntext + 1
    /\ UNCHANGED nbad
    /\ rdPc' = "enqueue"
    /\ UNCHANGED <<supVars, connResult, exitBy, resp, handled, enqueued, wrVars>>
    /\ UNCHANGED blocked
    /\ UNCHANGED otherVars

\* the handler panics: the panic unwinds through run_connection and
\* start_with_reconnect; ack_tx is dropped, the writer task is not aborted
ReadTextHandlerPanics(text) ==
    /\ rdPc = "reading"
    /\ nframes < frameLimit
    /\ DecodeOk(text)
    /\ cur' = parse_envelope(DecodeEnvelope(text))
    /\ curEnv' = DecodeEnvelope(text)
    /\ nframes' = nframes + 1
    /\ ntext' = ntext + 1
    /\ UNCHANGED nbad
    /\ rdPc' = "panicked"
    /\ supPc' = "panicked"
    /\ UNCHANGED <<backoff, supResult, attempts, lastSleep, streak, connUrl, connResult, exitBy,
                   resp, pendAck, handled, enqueued, wrVars>>
    /\ UNCHANGED blocked
    /\ UNCHANGED otherVars

\* a bug that drops the ack when the channel is full (try_send)
EnqueueBlocked_Drops ==
    /\ rdPc = "enqueue"
    /\ ~ReceiverClosed
    /\ Len(ackq) = queueCapacity
    /\ ~blocked
    /\ pendAck' = NoAck
    /\ rdPc' = "reading"
    /\ UNCHANGED <<supVars, connResult, exitBy, nframes, cur, resp, handled,
                   enqueued, blocked, wrVars>>
    /\ UNCHANGED txtVars
    /\ UNCHANGED otherVars

\* ack_tx.send(ack) finds the channel full: the send suspends until the
\* receiver has taken an ack or is gone
EnqueueBlocked ==
    /\ rdPc = "enqueue"
    /\ ~ReceiverClosed
    /\ Len(ackq) = queueCapacity
    /\ ~blocked
    /\ blocked' = TRUE
    /\ UNCHANGED <<supVars, rdPc, connResult, exitBy, nframes, cur, resp, pendAck,
                   handled, enqueued, wrVars>>
    /\ UNCHANGED txtVars
    /\ UNCHANGED otherVars

\* ack_tx.send(ack) completes: the channel has room and its receiver is alive
EnqueueAck ==
    /\ rdPc = "enqueue"
    /\ ~ReceiverClosed
    /\ Len(ackq) < queueCapacity
    /\ ackq' = Append(ackq, pendAck)
    /\ enqueued' = Append(enqueued, pendAck)
    /\ pendAck' = NoAck
    /\ rdPc' = "reading"
    /\ UNCHANGED <<supVars, connResult, exitBy, nframes, cur, resp, handled,
                   wrPc, wrAck, sent, abortPending>>
    /\ UNCHANGED txtVars
    /\ blocked' = FALSE
    /\ UNCHANGED otherVars

\* ack_tx.send(ack) fails, the receiver is gone: break, abort the writer
\* task, return Ok(())
EnqueueFails ==
    /\ rdPc = "enqueue"
    /\ ReceiverClosed
    /\ pendAck' = NoAck
    /\ wrPc' = AbortWriter(wrPc)
    /\ abortPending' = FALSE
    /\ rdPc' = "returned"
    /\ connResult' = "Ok"
    /\ exitBy' = "enqfail"
    /\ UNCHANGED <<supVars, nframes, cur, resp, handled, enqueued, ackq, wrAck, sent>>
    /\ UNCHANGED txtVars
    /\ blocked' = FALSE
    /\ UNCHANGED otherVars

\* a bug that reports a Close frame as a transport error
ReadClose_AsError ==
    /\ rdPc = "reading"
    /\ AbortWriteTask
    /\ rdPc' = "returned"
    /\ connResult' = "Err"
    /\ exitBy' = "close"
    /\ UNCHANGED <<supVars, nframes, cur, resp, pendAck, handled, enqueued, sent>>
    /\ UNCHANGED txtVars
    /\ UNCHANGED blocked
    /\ UNCHANGED otherVars

\* a bug that returns on a Close frame without aborting the writer task
ReadClose_NoAbort ==
    /\ rdPc = "reading"
    /\ rdPc' = "returned"
    /\ connResult' = "Ok"
    /\ exitBy' = "close"
    /\ UNCHANGED <<supVars, nframes, cur, resp, pendAck, handled, enqueued, wrVars>>
    /\ UNCHANGED txtVars
    /\ UNCHANGED blocked
    /\ UNCHANGED otherVars

\* Close frame: break, abort the writer task, return Ok(())
ReadClose ==
    /\ rdPc = "reading"
    /\ AbortWriteTask
    /\ rdPc' = "returned"
    /\ connResult' = "Ok"
    /\ exitBy' = "close"
    /\ UNCHANGED <<supVars, nframes, cur, resp, pendAck, handled, enqueued, sent>>
    /\ UNCHANGED txtVars
    /\ UNCHANGED blocked
    /\ UNCHANGED otherVars

\* a bug that reports the end of the stream as a transport error
ReadEndOfStream_AsError ==
    /\ rdPc = "reading"
    /\ AbortWriteTask
    /\ rdPc' = "returned"
    /\ connResult' = "Err"
    /\ exitBy' = "eos"
    /\ UNCHANGED <<supVars, nframes, cur, resp, pendAck, handled, enqueued, sent>>
    /\ UNCHANGED txtVars
    /\ UNCHANGED blocked
    /\ UNCHANGED otherVars

\* read.next() yields None: the loop ends, abort the writer task, Ok(())
ReadEndOfStream ==
    /\ rdPc = "reading"
    /\ AbortWriteTask
    /\ rdPc' = "returned"
    /\ connResult' = "Ok"
    /\ exitBy' = "eos"
    /\ UNCHANGED <<supVars, nframes, cur, resp, pendAck, handled, enqueued, sent>>
    /\ UNCHANGED txtVars
    /\ UNCHANGED blocked
    /\ UNCHANGED otherVars

\* a bug that answers a Ping with a Pong frame written by the runner
ReadPing_WritesPong ==
    /\ rdPc = "reading"
    /\ nframes < frameLimit
    /\ nframes' = nframes + 1
    /\ sent' = Append(sent, {<<"pong", "data">>})
    /\ UNCHANGED <<supVars, rdPc, connResult, exitBy, cur, resp, pendAck,
                   handled, enqueued, ackq, wrPc, wrAck, abortPending>>
    /\ UNCHANGED txtVars
    /\ UNCHANGED blocked
    /\ UNCHANGED otherVars

\* Ping frame: logged only
ReadPing ==
    /\ rdPc = "reading"
    /\ nframes < frameLimit
    /\ nframes' = nframes + 1
    /\ UNCHANGED <<supVars, rdPc, connResult, exitBy, cur, resp, pendAck,
                   handled, enqueued, wrVars>>
    /\ UNCHANGED txtVars
    /\ UNCHANGED blocked
    /\ UNCHANGED otherVars

\* any other frame (Binary, Pong, Frame): logged only
ReadOther ==
    /\ rdPc = "reading"
    /\ nframes < frameLimit
    /\ nframes' = nframes + 1
    /\ UNCHANGED <<supVars, rdPc, connResult, exitBy, cur, resp, pendAck,
                   handled, enqueued, wrVars>>
    /\ UNCHANGED txtVars
    /\ UNCHANGED blocked
    /\ UNCHANGED otherVars

\* a bug that swallows a read error
ReadErr_AsOk ==
    /\ rdPc = "reading"
    /\ AbortWriteTask
    /\ rdPc' = "returned"
    /\ connResult' = "Ok"
    /\ exitBy' = "readerr"
    /\ UNCHANGED <<supVars, nframes, cur, resp, pendAck, handled, enqueued, sent>>
    /\ UNCHANGED txtVars
    /\ UNCHANGED blocked
    /\ UNCHANGED otherVars

\* read error: abort the writer task, return Err
ReadErr ==
    /\ rdPc = "reading"
    /\ AbortWriteTask
    /\ rdPc' = "returned"
    /\ connResult' = "Err"
    /\ exitBy' = "readerr"
    /\ UNCHANGED <<supVars, nframes, cur, resp, pendAck, handled, enqueued, sent>>
    /\ UNCHANGED txtVars
    /\ UNCHANGED blocked
    /\ UNCHANGED otherVars

(* ---------------- the writer task ---------------- *)

\* a bug that takes the newest ack of the channel first
WriterRecv_Lifo ==
    /\ wrPc = "recv"
    /\ ackq # << >>
    /\ wrAck' = ackq[Len(ackq)]
    /\ ackq' = SubSeq(ackq, 1, Len(ackq) - 1)
    /\ wrPc' = "send"
    /\ UNCHANGED <<supVars, rdVars, sent, abortPending>>
    /\ UNCHANGED otherVars

\* ack_rx.recv() yields the oldest ack of the channel
WriterRecv ==
    /\ wrPc = "recv"
    /\ ackq # << >>
    /\ wrAck' = Head(ackq)
    /\ ackq' = Tail(ackq)
    /\ wrPc' = "send"
    /\ UNCHANGED <<supVars, rdVars, sent, abortPending>>
    /\ UNCHANGED otherVars

\* ack_rx.recv() yields None: the channel is empty and ack_tx was dropped
WriterRecvClosed ==
    /\ wrPc = "recv"
    /\ ackq = << >>
    /\ SenderDropped
    /\ wrPc' = "ended"
    /\ abortPending' = FALSE
    /\ UNCHANGED <<supVars, rdVars, ackq, wrAck, sent>>
    /\ UNCHANGED otherVars

\* write.send(Text(msg)) succeeded
WriterSendOk ==
    /\ wrPc = "send"
    /\ sent' = Append(sent, SerializeAck(wrAck))
    /\ wrAck' = NoAck
    /\ wrPc' = "recv"
    /\ UNCHANGED <<supVars, rdVars, ackq, abortPending>>
    /\ UNCHANGED otherVars

\* a bug that logs the failed write.send and goes on with the next ack
WriterSendErr_Continues ==
    /\ wrPc = "send"
    /\ wrAck' = NoAck
    /\ wrPc' = "recv"
    /\ UNCHANGED <<supVars, rdVars, ackq, sent, abortPending>>
    /\ UNCHANGED otherVars

\* write.send(Text(msg)) failed: log, break; the task ends and drops ack_rx
\* with whatever the channel still holds
WriterSendErr ==
    /\ wrPc = "send"
    /\ wrAck' = NoAck
    /\ wrPc' = "ended"
    /\ ackq' = << >>
    /\ abortPending' = FALSE
    /\ UNCHANGED <<supVars, rdVars, sent>>
    /\ UNCHANGED otherVars

\* the poll of a writer task marked by abort returns: the task is cancelled
\* and drops the receiver with whatever the channel still holds
WriterCancelled ==
    /\ abortPending
    /\ wrPc \in {"recv", "send"}
    /\ wrPc' = "aborted"
    /\ ackq' = << >>
    /\ wrAck' = NoAck
    /\ abortPending' = FALSE
    /\ UNCHANGED <<supVars, rdVars, sent>>
    /\ UNCHANGED otherVars

(* ---------------- specification ---------------- *)

Next ==
    \/ OpenConnectionOk
    \/ OpenConnectionErr
    \/ WakeAfterOpenErr
    \/ RunReturnedOk
    \/ RunReturnedErr
    \/ WakeAfterRunErr
    \/ ConnectErr
    \/ ConnectOk
    \/ \E text \in TextFrames : ReadTextUndecodable(text)
    \/ \E text \in TextFrames, response \in HandlerResults : ReadTextEvent(text, response)
    \/ \E text \in TextFrames, response \in HandlerResults : ReadTextHello(text, response)
    \/ \E text \in TextFrames : ReadTextHandlerPanics(text)
    \/ EnqueueAck
    \/ EnqueueFails
    \/ ReadClose
    \/ ReadEndOfStream
    \/ ReadPing
    \/ ReadOther
    \/ ReadErr
    \/ WriterRecv
    \/ WriterRecvClosed
    \/ WriterSendOk
    \/ WriterSendErr

Spec == Init /\ [][Next]_vars

\* One call of start: one bootstrap, at most one connection.
InitStart ==
    InitAt("start_open", {NoEnvelope}) /\ BoundedBy(1, MaxFrames, AckQueueCapacity)

NextStart ==
    \/ StartOpenConnectionOk
    \/ StartOpenConnectionErr
    \/ StartRunReturned
    \/ ConnectErr
    \/ ConnectOk
    \/ \E text \in TextFrames : ReadTextUndecodable(text)
    \/ \E text \in TextFrames, response \in HandlerResults : ReadTextEvent(text, response)
    \/ \E text \in TextFrames, response \in HandlerResults : ReadTextHello(text, response)
    \/ \E text \in TextFrames : ReadTextHandlerPanics(text)
    \/ EnqueueAck
    \/ EnqueueFails
    \/ ReadClose
    \/ ReadEndOfStream
    \/ ReadPing
    \/ ReadOther
    \/ ReadErr
    \/ WriterRecv
    \/ WriterRecvClosed
    \/ WriterSendOk
    \/ WriterSendErr

SpecStart == InitStart /\ [][NextStart]_vars

\* One call of start on a connection whose envelopes carry payloads for the
\* structured records.
InitStructured ==
    InitAt("start_open", {NoEnvelope}) /\ BoundedBy(1, MaxFrames, AckQueueCapacity)

NextStructured ==
    \/ StartOpenConnectionOk
    \/ StartOpenConnectionErr
    \/ StartRunReturned
    \/ ConnectErr
    \/ ConnectOk
    \/ \E text \in StructuredFrames : ReadTextUndecodable(text)
    \/ \E text \in StructuredFrames, response \in HandlerResults :
          ReadTextEvent(text, response)
    \/ \E text \in StructuredFrames, response \in HandlerResults :
          ReadTextHello(text, response)
    \/ \E text \in StructuredFrames : ReadTextHandlerPanics(text)
    \/ EnqueueAck
    \/ EnqueueFails
    \/ ReadClose
    \/ ReadEndOfStream
    \/ ReadPing
    \/ ReadOther
    \/ ReadErr
    \/ WriterRecv
    \/ WriterRecvClosed
    \/ WriterSendOk
    \/ WriterSendErr

SpecStructured == InitStructured /\ [][NextStructured]_vars

\* parse_envelope as a function of the decoded envelope.
InitCodec ==
    InitAt("codec", CodecEnvelopes) /\ BoundedBy(1, MaxFrames, AckQueueCapacity)

NextCodec == ParseEnvelope

SpecCodec == InitCodec /\ [][NextCodec]_vars

\* The supervisor over connections on which the server sends no frame before
\* the connection ends: more bootstrap requests fit in the same state space.
InitBackoff ==
    InitAt("open", {NoEnvelope}) /\ BoundedBy(BackoffAttempts, MaxFrames, AckQueueCapacity)

NextBackoff ==
    \/ OpenConnectionOk
    \/ OpenConnectionErr
    \/ WakeAfterOpenErr
    \/ RunReturnedOk
    \/ RunReturnedErr
    \/ WakeAfterRunErr
    \/ ConnectErr
    \/ ConnectOk
    \/ ReadClose
    \/ ReadEndOfStream
    \/ ReadErr

SpecBackoff == InitBackoff /\ [][NextBackoff]_vars

\* The supervisor when every bootstrap succeeds and every connection ends
\* without a data frame.
InitReconnect ==
    InitAt("open", {NoEnvelope}) /\ BoundedBy(BackoffAttempts, MaxFrames, AckQueueCapacity)

NextReconnect ==
    \/ OpenConnectionOk
    \/ RunReturnedOk
    \/ RunReturnedErr
    \/ WakeAfterRunErr
    \/ ConnectErr
    \/ ConnectOk
    \/ ReadClose
    \/ ReadEndOfStream
    \/ ReadPing
    \/ ReadOther
    \/ ReadErr

SpecReconnect == InitReconnect /\ [][NextReconnect]_vars

\* One call of start on a connection whose ack channel has the capacity of
\* the source, with a server that sends two events more than the channel
\* holds.
InitFullQueue ==
    InitAt("start_open", {NoEnvelope}) /\ BoundedBy(1, FullQueueFrames, ChannelCapacity)

NextFullQueue ==
    \/ StartOpenConnectionOk
    \/ StartOpenConnectionErr
    \/ StartRunReturned
    \/ ConnectOk
    \/ \E text \in QueueFrames : ReadTextEvent(text, None)
    \/ EnqueueBlocked
    \/ EnqueueAck
    \/ EnqueueFails
    \/ ReadClose
    \/ WriterRecv
    \/ WriterSendOk
    \/ WriterSendErr

SpecFullQueue == InitFullQueue /\ [][NextFullQueue]_vars

\* One call of start on either runtime flavour: on a multi-thread runtime
\* write_task.abort() may find the writer task in the middle of a poll.
InitAbort ==
    InitOn("start_open", {NoEnvelope}, BOOLEAN) /\ BoundedBy(1, MaxFrames, AckQueueCapacity)

NextAbort ==
    \/ StartOpenConnectionOk
    \/ StartOpenConnectionErr
    \/ StartRunReturned
    \/ ConnectErr
    \/ ConnectOk
    \/ \E text \in TextFrames, response \in HandlerResults : ReadTextEvent(text, response)
    \/ EnqueueAck
    \/ EnqueueFails
    \/ ReadClose
    \/ ReadEndOfStream
    \/ ReadErr
    \/ WriterRecv
    \/ WriterRecvClosed
    \/ WriterSendOk
    \/ WriterSendErr
    \/ WriterCancelled

SpecAbort == InitAbort /\ [][NextAbort]_vars

\* One call of start with a runtime that polls the writer task whenever it can
\* make a step.
SpecWriterFair ==
    /\ InitStart
    /\ [][NextStart]_vars
    /\ WF_vars(WriterRecv)
    /\ WF_vars(WriterRecvClosed)
    /\ WF_vars(WriterSendOk \/ WriterSendErr)

(* ---------------- properties ---------------- *)

IsHello(e) == e.envelope_type = Hello
NotHello(e) == e.envelope_type # Hello
\* the events of this connection that went through the acknowledging branch
Acked == SelectSeq(handled, NotHello)
IdsOf(seq) == [i \in DOMAIN seq |-> seq[i].envelope_id]
HasPayload(json) == \E kv \in json : kv[1] = "payload"

\* C1, as stated: every non-hello event the handler has returned from has its
\* own Acknowledgment in the channel's log once the enqueue step is over.
C1_EveryAckEnqueued ==
    rdPc # "enqueue" => IdsOf(enqueued) = IdsOf(Acked)

\* C1, amended: for every non-hello event exactly one Acknowledgment is built
\* after the handler returns, it carries that event's envelope_id, and it is
\* enqueued in order unless the writer task has ended, in which case the
\* enqueue fails and run_connection returns.
C1_OneAckPerEvent ==
    /\ (rdPc = "enqueue") =>
          IdsOf(Acked) = IdsOf(enqueued) \o <<pendAck.envelope_id>>
    /\ (rdPc # "enqueue" /\ exitBy # "enqfail") =>
          IdsOf(Acked) = IdsOf(enqueued)
    /\ (exitBy = "enqfail") =>
          /\ wrPc = "ended"
          /\ Len(Acked) = Len(enqueued) + 1
          /\ IdsOf(enqueued) = SubSeq(IdsOf(Acked), 1, Len(enqueued))

C1_Witness ==
    /\ rdPc = "reading"
    /\ Len(enqueued) = 2
    /\ enqueued[1].envelope_id = "e2"
    /\ enqueued[2].envelope_id = "e1"

\* C2, as stated: a failed enqueue makes run_connection return Err, and the
\* supervisor does not terminate on it.
C2_EnqueueFailureIsErr ==
    exitBy = "enqfail" => (connResult = "Err" /\ supPc # "done")

\* C3: when run_connection has returned Ok(()), the only step of the
\* supervisor is to terminate with Ok(()), with no further bootstrap and no
\* sleep, and nothing happens after it has terminated.
C3_OkTerminates ==
    [][ /\ (supPc = "run" /\ connResult = "Ok") =>
              /\ supPc' = "done"
              /\ supResult' = "Ok"
              /\ attempts' = attempts
              /\ lastSleep' = lastSleep
              /\ rdPc' = "returned"
        /\ (supPc = "done") => UNCHANGED vars ]_vars

C3_Witness ==
    /\ supPc = "done"
    /\ supResult = "Ok"
    /\ attempts < attemptLimit

\* C4, as stated: a connection ended by a Close frame never leaves the
\* supervisor terminated (it reconnects).
C4_CloseReconnects ==
    ~(exitBy = "close" /\ supPc = "done")

\* C4, amended: when a Close frame ends a connection run by
\* start_with_reconnect, run_connection returns Ok(()) and the supervisor
\* terminates with Ok(()): it requests no new URL and runs no new connection.
C4_CloseTerminates ==
    [][ (exitBy = "close") =>
           /\ connResult = "Ok"
           /\ supPc' = "done"
           /\ supResult' = "Ok"
           /\ attempts' = attempts
           /\ rdPc' = "returned" ]_vars

C4_Witness ==
    /\ exitBy = "close"
    /\ supPc = "done"
    /\ nframes > 0
    /\ attempts < attemptLimit

\* C5: start_with_reconnect never returns Err; a failed bootstrap and a failed
\* run_connection are each followed by a sleep of the current backoff, and
\* the sleep by a new bootstrap attempt.
C5_FailuresRetried ==
    [][ /\ supResult' # "Err"
        /\ (supPc' = "done") => (supResult' = "Ok")
        /\ (supPc = "open" /\ supPc' # "open") =>
              \/ supPc' = "run"
              \/ supPc' = "sleep_open" /\ lastSleep' = backoff /\ backoff' = backoff
        /\ (supPc = "run" /\ connResult = "Err") =>
              supPc' = "sleep_run" /\ lastSleep' = backoff /\ backoff' = backoff
        /\ (supPc \in {"sleep_open", "sleep_run"}) => supPc' = "open" ]_vars

C5_Witness ==
    /\ supPc = "open"
    /\ attempts = 2
    /\ lastSleep = 2
    /\ backoff = 4

\* C6, as stated: when run_connection has returned Ok(()), every
\* Acknowledgment enqueued on the connection has been written to the socket.
C6_EnqueuedAcksWritten ==
    (rdPc = "returned" /\ connResult = "Ok") =>
        sent = [i \in DOMAIN enqueued |-> SerializeAck(enqueued[i])]

\* C7: the frames written to the socket are, in order, the serialized acks
\* of a prefix of the enqueued sequence, and an ack the writer task holds is
\* the next one of that sequence.
C7_SentIsPrefix ==
    /\ Len(sent) <= Len(enqueued)
    /\ \A i \in DOMAIN sent : sent[i] = SerializeAck(enqueued[i])
    /\ (wrPc = "send") =>
          /\ Len(sent) < Len(enqueued)
          /\ wrAck = enqueued[Len(sent) + 1]

C7_Witness ==
    /\ Len(sent) = 2
    /\ sent[1] # sent[2]

\* C8, as stated: the ack built for an event has a payload field exactly when
\* the handler returned a response and accepts_response_payload was true.
C8_PayloadOnlyWhenAccepted ==
    (rdPc = "enqueue") =>
        (HasPayload(SerializeAck(pendAck)) <=>
            (resp # None /\ cur.accepts_response_payload))

\* C9, as stated: Acknowledgments are produced only for events that are
\* neither hello nor disconnect.
C9_DisconnectNeverAcked ==
    Len(enqueued) <=
        Cardinality({i \in DOMAIN handled :
                        handled[i].envelope_type.tag \notin {"Hello", "Disconnect"}})

\* C9, amended: no Acknowledgment is produced for a hello envelope, while a
\* disconnect envelope is acknowledged like any other non-hello envelope: one
\* Acknowledgment with its envelope_id is built and, unless the writer task
\* has ended, enqueued.
C9_OnlyHelloUnacked ==
    /\ Len(enqueued) <= Len(Acked)
    /\ \A i \in DOMAIN Acked :
          (Acked[i].envelope_type.tag = "Disconnect") =>
              \/ i <= Len(enqueued) /\ enqueued[i].envelope_id = Acked[i].envelope_id
              \/ /\ i = Len(enqueued) + 1
                 /\ \/ rdPc = "enqueue" /\ pendAck.envelope_id = Acked[i].envelope_id
                    \/ exitBy = "enqfail"

C9_Witness ==
    /\ Len(handled) = 1
    /\ handled[1].envelope_type.tag = "Disconnect"
    /\ Len(sent) = 1
    /\ <<"envelope_id", handled[1].envelope_id>> \in sent[1]

\* C10: the step that dispatches a hello envelope invokes the handler once
\* for one frame read, builds and enqueues no Acknowledgment whatever the
\* handler returns, and goes on reading; the acks built on a connection are
\* as many as its non-hello events.
C10_HelloNotAcked ==
    [][ /\ (Len(handled') = Len(handled) + 1 /\ IsHello(handled'[Len(handled')])) =>
              /\ nframes' = nframes + 1
              /\ cur'.envelope_id = handled'[Len(handled')].envelope_id
              /\ rdPc' = "reading"
              /\ pendAck' = pendAck
              /\ enqueued' = enqueued
              /\ ackq' = ackq
              /\ sent' = sent
        /\ Len(handled') <= Len(handled) + 1
        /\ Len(enqueued') + (IF rdPc' = "enqueue" \/ exitBy' = "enqfail" THEN 1 ELSE 0)
              = Len(SelectSeq(handled', NotHello)) ]_vars

C10_Witness ==
    /\ Len(handled) = 2
    /\ IsHello(handled[1])
    /\ IsHello(handled[2])
    /\ resp # None
    /\ enqueued = << >>
    /\ rdPc = "reading"

\* C12: the read loop ends with Ok(()) on a Close frame and with Err on a
\* read error, and the result stands until the caller has taken it.
C12_ResultByExit ==
    [][ /\ (rdPc = "reading" /\ rdPc' = "returned") =>
              \/ exitBy' \in {"close", "eos"} /\ connResult' = "Ok"
              \/ exitBy' = "readerr" /\ connResult' = "Err"
        /\ (exitBy' = "close") => (connResult' = "Ok")
        /\ (exitBy' = "readerr") => (connResult' = "Err") ]_vars

C12_Witness ==
    /\ exitBy = "readerr"
    /\ connResult = "Err"
    /\ rdPc = "returned"
    /\ Len(handled) > 0

\* C13: the k-th of the consecutive bootstrap failures that start a run sleeps
\* 1, 2, 4, 8, 16, 32, 60 seconds for k = 1..7 and 60 seconds for every
\* later k.
BackoffSchedule == <<1, 2, 4, 8, 16, 32, 60>>

C13_BackoffSequence ==
    (supPc = "sleep_open" /\ streak = attempts) =>
        lastSleep = (IF streak <= Len(BackoffSchedule)
                     THEN BackoffSchedule[streak] ELSE 60)

C13_Witness ==
    /\ supPc = "sleep_open"
    /\ attempts = 8
    /\ streak = 8
    /\ lastSleep = 60

\* C14: a successful bootstrap leaves the backoff at 1 for the whole
\* connection, so the sleep that follows the connection lasts 1 second,
\* whatever the backoff was before the bootstrap.
C14_ResetOnOpen ==
    [][ /\ (supPc = "open" /\ supPc' = "run") => (backoff' = 1)
        /\ (supPc' = "run") => (backoff' = 1)
        /\ (supPc = "run" /\ supPc' = "sleep_run") => (lastSleep' = 1) ]_vars

\* the backoff had reached 60 (the latest sleep lasted 32), the bootstrap
\* succeeded and the connection failed: the sleep about to start lasts 1
C14_Witness ==
    /\ supPc = "run"
    /\ rdPc = "returned"
    /\ connResult = "Err"
    /\ lastSleep = 32
    /\ backoff = 1

\* C15: a connection (socket, ack channel, writer task) exists only while the
\* supervisor is inside run_connection, and run_connection is entered only
\* when no earlier connection is left.
C15_OneConnection ==
    [][ /\ (rdPc' \in {"connecting", "reading", "enqueue", "returned"}) =>
              (supPc' \in {"run", "done"})
        /\ (wrPc' \in {"recv", "send"}) => (supPc' \in {"run", "panicked"})
        /\ (rdPc' = "connecting" /\ rdPc # "connecting") =>
              /\ rdPc = "none"
              /\ wrPc = "none"
              /\ ackq = << >>
              /\ attempts' = attempts + 1 ]_vars

C15_Witness ==
    /\ attempts = 2
    /\ lastSleep = 1
    /\ streak = 0
    /\ backoff = 1
    /\ supPc = "run"
    /\ rdPc = "enqueue"
    /\ wrPc = "send"

\* C11: a Text frame that does not decode as an envelope is dropped: the
\* handler is not called, no ack is built or enqueued, and the read loop goes
\* on; of the Text frames read on a connection, the handler has been called
\* for exactly those that decoded.
HandlerCalls == Len(handled) + (IF rdPc = "panicked" THEN 1 ELSE 0)

C11_UndecodableDropped ==
    [][ /\ (nbad' = nbad + 1) =>
              /\ rdPc = "reading"
              /\ rdPc' = "reading"
              /\ ntext' = ntext + 1
              /\ UNCHANGED <<handled, cur, pendAck, enqueued, ackq, connResult>>
        /\ HandlerCalls' = ntext' - nbad' ]_vars

C11_Witness ==
    /\ rdPc = "reading"
    /\ ntext = 2
    /\ nbad = 1
    /\ Len(handled) = 1
    /\ Len(enqueued) = 1

\* C19: every run_connection call gets the url returned by the bootstrap call
\* made just before it, after the previous run_connection has returned; the
\* url differs from the one of every earlier connection attempt.
C19_FreshUrl ==
    [][ (rdPc' = "connecting" /\ rdPc # "connecting") =>
            /\ rdPc = "none"
            /\ attempts' = attempts + 1
            /\ connUrl' = attempts'
            /\ connUrl' > connUrl ]_vars

C19_Witness ==
    /\ connUrl = 3
    /\ attempts = 3
    /\ rdPc = "reading"
    /\ lastSleep = 1

\* C18: start makes one bootstrap request and, only when it succeeded, one
\* run_connection call; a bootstrap error is returned with no connection
\* attempt, the result of run_connection is returned unchanged, and start
\* neither sleeps nor retries.
C18_StartSingleShot ==
    [][ /\ attempts' <= 1
        /\ lastSleep' = 0
        /\ backoff' = InitialBackoff
        /\ (rdPc' # "none") => (attempts' = 1 /\ connUrl' = 1)
        /\ (rdPc' = "connecting" /\ rdPc # "connecting") =>
              (rdPc = "none" /\ supPc = "start_open")
        /\ (rdPc = "returned") => (rdPc' = "returned")
        /\ (supPc' = "done" /\ supPc # "done") =>
              /\ attempts' = 1
              /\ \/ rdPc' = "none" /\ wrPc' = "none" /\ supResult' = "Err"
                 \/ rdPc' = "returned" /\ supResult' = connResult'
        /\ (supPc = "done") => UNCHANGED <<supVars, rdVars>> ]_vars

C18_Witness ==
    /\ supPc = "done"
    /\ supResult = "Err"
    /\ exitBy = "readerr"
    /\ Len(handled) > 0
    /\ attempts = 1
    /\ lastSleep = 0

\* C20: a client without an app-level token gets a configuration error from
\* start_with_reconnect before any connection attempt: the call is over with
\* Err after the first step, having neither slept nor retried.
C20_MissingTokenSurfaced ==
    (~hasAppToken /\ attempts >= 1) =>
        /\ supPc = "done"
        /\ supResult = "Err"
        /\ attempts = 1
        /\ lastSleep = 0

\* an envelope of a structured type whose payload is there and does not
\* decode into the record of that type
UndecodablePayload(env) ==
    /\ env.payload # NoValue
    /\ \/ env.envelope_type = "events_api" /\ ~DecodesEventsApiPayload(env.payload)
       \/ env.envelope_type = "interactive" /\ ~DecodesInteractivePayload(env.payload)
       \/ env.envelope_type = "slash_commands" /\ ~DecodesSlashCommandPayload(env.payload)

\* C16, as stated: an event whose structured payload does not decode reaches
\* the handler as Raw with the original payload, and once the handler has
\* returned and the enqueue step is over its ack is in the channel's log.
C16_RawAlwaysEnqueued ==
    (rdPc \in {"reading", "returned"} /\ UndecodablePayload(curEnv)) =>
        /\ cur.payload = PayloadRaw(curEnv.payload)
        /\ Len(handled) > 0
        /\ handled[Len(handled)] = Seen(cur)
        /\ Len(enqueued) = Len(Acked)
        /\ enqueued[Len(enqueued)].envelope_id = cur.envelope_id

\* C16, amended: such an envelope always yields an event, with payload Raw
\* carrying the original payload; the handler is called with it, the ack with
\* its envelope_id is built and handed to the channel, where it is enqueued
\* unless the writer task has ended.
C16_RawFallback ==
    [][ /\ (ntext' = ntext + 1 /\ nbad' = nbad /\ UndecodablePayload(curEnv')) =>
              /\ cur'.payload = PayloadRaw(curEnv'.payload)
              /\ cur'.envelope_id = curEnv'.envelope_id
              /\ \/ rdPc' = "panicked"
                 \/ /\ handled' = Append(handled, Seen(cur'))
                    /\ rdPc' = "enqueue"
                    /\ pendAck'.envelope_id = curEnv'.envelope_id
        /\ (rdPc = "enqueue" /\ rdPc' # "enqueue" /\ UndecodablePayload(curEnv)) =>
              \/ ~ReceiverClosed /\ enqueued' = Append(enqueued, pendAck)
                                 /\ rdPc' = "reading"
              \/ ReceiverClosed /\ wrPc = "ended" /\ exitBy' = "enqfail" ]_vars

C16_Witness ==
    /\ rdPc = "reading"
    /\ curEnv.envelope_type = "interactive"
    /\ curEnv.payload = JsonObject({})
    /\ cur.payload = PayloadRaw(JsonObject({}))
    /\ Len(handled) = 1
    /\ Len(enqueued) = 1
    /\ enqueued[1].envelope_id = "e1"

\* C17: the five known type strings map to their variants, every other
\* string s maps to Unknown(s) with s unchanged, and every string has an
\* image.
C17_TypeMapping ==
    (supPc = "done") =>
        LET s == curEnv.envelope_type
            t == cur.envelope_type
        IN /\ (s = "events_api") => (t = [tag |-> "EventsApi", s |-> ""])
           /\ (s = "interactive") => (t = [tag |-> "Interactive", s |-> ""])
           /\ (s = "slash_commands") => (t = [tag |-> "SlashCommands", s |-> ""])
           /\ (s = "hello") => (t = [tag |-> "Hello", s |-> ""])
           /\ (s = "disconnect") => (t = [tag |-> "Disconnect", s |-> ""])
           /\ (s \notin KnownTypeStrings) => (t = [tag |-> "Unknown", s |-> s])
           /\ t.tag \in {"EventsApi", "Interactive", "SlashCommands", "Hello",
                         "Disconnect", "Unknown"}

C17_Witness ==
    /\ supPc = "done"
    /\ curEnv.envelope_type = "unknown_type"
    /\ cur.envelope_type = [tag |-> "Unknown", s |-> "unknown_type"]

\* C21: the backoff is always one of 1, 2, 4, 8, 16, 32, 60 seconds, and
\* every sleep lasts between 1 and 60 seconds.
BackoffValues == {1, 2, 4, 8, 16, 32, 60}

C21_BackoffRange ==
    /\ backoff \in BackoffValues
    /\ (supPc \in {"sleep_open", "sleep_run"}) =>
          (lastSleep = backoff /\ lastSleep >= 1 /\ lastSleep <= 60)
    /\ (lastSleep # 0) => (lastSleep \in BackoffValues)

C21_Witness ==
    /\ supPc = "sleep_open"
    /\ backoff = 60
    /\ lastSleep = 60
    /\ connUrl > 0

\* C28: while every bootstrap succeeds, each sleep after a failed
\* run_connection lasts 1 second, however many connections have failed in a
\* row: the backoff is 1 during every connection and never goes beyond 2.
C28_NoEscalation ==
    [][ /\ (supPc' = "sleep_run" /\ supPc # "sleep_run") =>
              (lastSleep' = 1 /\ backoff' = 1)
        /\ (supPc' = "run") => (backoff' = 1)
        /\ backoff' \in {1, 2}
        /\ lastSleep' \in {0, 1} ]_vars

C28_Witness ==
    /\ supPc = "sleep_run"
    /\ attempts = 8
    /\ connUrl = 8
    /\ lastSleep = 1

\* C25: a failed handshake makes run_connection return Err at once: no writer
\* task exists, no frame was read, the handler was not called and no ack was
\* built, enqueued or written for that attempt.
C25_HandshakeFailsFast ==
    /\ (exitBy = "handshake") =>
          /\ connResult = "Err"
          /\ rdPc = "returned"
          /\ wrPc = "none"
          /\ nframes = 0
          /\ handled = << >>
          /\ pendAck = NoAck
          /\ enqueued = << >>
          /\ ackq = << >>
          /\ sent = << >>
    /\ (rdPc = "connecting") => (wrPc = "none" /\ handled = << >>)

C25_Witness ==
    /\ exitBy = "handshake"
    /\ connResult = "Err"
    /\ attempts = 2
    /\ lastSleep = 1

\* C29: when the stream yields no more frames, run_connection aborts the
\* writer task and returns Ok(()) as it does for a Close frame, and
\* start_with_reconnect then terminates with Ok(()): no sleep, no new
\* bootstrap.
C29_EndOfStreamTerminates ==
    [][ /\ (exitBy' = "eos" /\ exitBy # "eos") =>
              /\ rdPc = "reading"
              /\ rdPc' = "returned"
              /\ connResult' = "Ok"
              /\ wrPc' = AbortWriter(wrPc)
        /\ (exitBy = "eos") =>
              /\ connResult = "Ok"
              /\ supPc' = "done"
              /\ supResult' = "Ok"
              /\ attempts' = attempts
              /\ lastSleep' = lastSleep
              /\ rdPc' = "returned" ]_vars

C29_Witness ==
    /\ exitBy = "eos"
    /\ supPc = "done"
    /\ supResult = "Ok"
    /\ Len(handled) > 0
    /\ attempts < attemptLimit

\* C26: a frame that is neither Text nor Close (Ping, Pong, Binary) is only
\* counted: the handler is not called, no ack is built or enqueued, the
\* runner writes nothing to the socket, and the loop stays in its reading
\* state for the next frame.
C26_PingIsNoOp ==
    [][ (nframes' = nframes + 1 /\ ntext' = ntext) =>
            /\ rdPc = "reading"
            /\ rdPc' = "reading"
            /\ UNCHANGED <<handled, cur, resp, pendAck, enqueued, ackq, sent,
                           wrPc, wrAck, connResult, exitBy, supVars>> ]_vars

C26_Witness ==
    /\ rdPc = "reading"
    /\ nframes = 2
    /\ ntext = 1
    /\ nbad = 0
    /\ Len(handled) = 1
    /\ Len(sent) = 1

\* C27: when the handler panics, the panic leaves run_connection and its
\* caller without a result; no ack is built or enqueued for that event, and
\* the reader of that connection takes no further step.
C27_PanicIsFatal ==
    [][ /\ (ntext' = ntext + 1 /\ nbad' = nbad /\ handled' = handled) =>
              /\ rdPc' = "panicked"
              /\ supPc' = "panicked"
              /\ pendAck' = NoAck
              /\ enqueued' = enqueued
              /\ ackq' = ackq
              /\ connResult' = None
              /\ supResult' = None
        /\ (rdPc = "panicked") =>
              /\ UNCHANGED <<rdVars, supVars>>
              /\ Len(ackq') <= Len(ackq) ]_vars

C27_Witness ==
    /\ rdPc = "panicked"
    /\ nframes = 2
    /\ Len(handled) = 1
    /\ Len(enqueued) = 1
    /\ Len(sent) = 1
    /\ cur.envelope_id # handled[1].envelope_id

\* C30: a disconnect envelope is dispatched like any other event and the
\* loop goes on: the connection does not return on it, later frames are
\* read and dispatched, and run_connection returns from the loop only on a
\* Close frame, the end of the stream, a read error or a failed enqueue.
C30_DisconnectKeepsReading ==
    [][ /\ (Len(handled') = Len(handled) + 1
              /\ handled'[Len(handled')].envelope_type.tag = "Disconnect") =>
              /\ rdPc = "reading"
              /\ rdPc' = "enqueue"
              /\ connResult' = None
              /\ exitBy' = None
              /\ wrPc' = wrPc
        /\ (rdPc = "enqueue" /\ rdPc' # "enqueue"
              /\ cur.envelope_type.tag = "Disconnect") =>
              \/ rdPc' = "reading" /\ exitBy' = None
              \/ rdPc' = "returned" /\ exitBy' = "enqfail"
        /\ (rdPc \in {"reading", "enqueue"} /\ rdPc' = "returned") =>
              exitBy' \in {"close", "eos", "readerr", "enqfail"} ]_vars

C30_Witness ==
    /\ Len(handled) = 2
    /\ handled[1].envelope_type.tag = "Disconnect"
    /\ handled[2].envelope_type.tag = "EventsApi"
    /\ Len(enqueued) = 2
    /\ rdPc = "reading"
    /\ exitBy = None

\* C24, as stated: the channel never holds more than 100 acks; a read loop
\* suspended on a full channel reads no frame and calls no handler, and when
\* it leaves the suspended send its ack has been enqueued.
C24_BlockedAckEnqueued ==
    [][ /\ Len(ackq') <= 100
        /\ (blocked /\ blocked') => UNCHANGED rdVars
        /\ (blocked /\ ~blocked') =>
              /\ enqueued' = Append(enqueued, pendAck)
              /\ ackq' = Append(ackq, pendAck) ]_vars

\* C24, amended: the channel never holds more than 100 acks; while it holds
\* 100 the suspended read loop reads no frame and calls no handler; once the
\* writer task has taken an ack the send can complete with the same ack, and
\* the ack is enqueued unless the writer task has ended in between (the
\* socket send failed), in which case it is discarded and run_connection
\* returns. A full channel alone never discards an ack.
C24_Backpressure ==
    [][ /\ Len(ackq') <= 100
        /\ (blocked /\ blocked') => UNCHANGED rdVars
        /\ (blocked /\ Len(ackq) = 100) =>
              (blocked' /\ (Len(ackq') >= 99 \/ wrPc' = "ended"))
        /\ (blocked /\ wrPc = "recv" /\ wrPc' = "send") =>
              /\ Len(ackq') < 100
              /\ pendAck' = pendAck
              /\ ~ReceiverClosed'
        /\ (blocked /\ ~blocked') =>
              \/ /\ ~ReceiverClosed
                 /\ enqueued' = Append(enqueued, pendAck)
                 /\ ackq' = Append(ackq, pendAck)
                 /\ rdPc' = "reading"
              \/ /\ wrPc = "ended"
                 /\ exitBy' = "enqfail"
        /\ (rdPc = "enqueue" /\ rdPc' = "reading") =>
              enqueued' = Append(enqueued, pendAck) ]_vars

C24_Witness ==
    /\ blocked
    /\ Len(handled) = 101
    /\ Len(enqueued) = 100
    /\ Len(ackq) = 99
    /\ wrPc = "send"
    /\ pendAck.envelope_id = "e1"

\* run_connection has returned from a connection whose handshake succeeded
ReturnedAfterHandshake == rdPc = "returned" /\ exitBy # "handshake"

\* C22, as stated: every return after a successful handshake has aborted the
\* writer task, so that no ack is written to the socket once run_connection
\* has returned; aborting a writer task that already exited changes nothing.
C22_NoWriteAfterReturn ==
    [][ /\ (rdPc # "returned" /\ ReturnedAfterHandshake') =>
              /\ exitBy' \in {"close", "eos", "enqfail", "readerr"}
              /\ (wrPc = "ended") => (wrPc' = "ended" /\ sent' = sent)
        /\ ReturnedAfterHandshake => sent' = sent ]_vars

\* C22, amended: every return after a successful handshake (Close frame, end
\* of stream, failed enqueue, read error) calls abort on the writer task
\* first. A writer task that is suspended is cancelled at once and writes
\* nothing more; one that is being polled on another worker thread is
\* cancelled when that poll ends, and until then it may still write, in
\* order, acks that were enqueued before the return. Aborting a writer task
\* that already exited changes nothing.
C22_AbortBeforeReturn ==
    [][ /\ (rdPc # "returned" /\ ReturnedAfterHandshake') =>
              /\ exitBy' \in {"close", "eos", "enqfail", "readerr"}
              /\ sent' = sent
              /\ (wrPc = "ended") => (wrPc' = "ended" /\ ~abortPending')
              /\ (wrPc \in {"recv", "send"}) =>
                    \/ wrPc' = "aborted" /\ ackq' = << >> /\ ~abortPending'
                    \/ multiThread /\ abortPending' /\ wrPc' = wrPc /\ ackq' = ackq
        /\ ReturnedAfterHandshake =>
              /\ wrPc \in {"recv", "send", "ended", "aborted"}
              /\ (wrPc \in {"recv", "send"}) => (abortPending /\ multiThread)
              /\ (wrPc \in {"ended", "aborted"}) => UNCHANGED wrVars
              /\ ~multiThread => sent' = sent
              /\ enqueued' = enqueued
              /\ (sent' # sent) =>
                    /\ Len(sent) < Len(enqueued)
                    /\ sent' = Append(sent, SerializeAck(enqueued[Len(sent) + 1])) ]_vars

C22_Witness ==
    /\ ReturnedAfterHandshake
    /\ exitBy = "readerr"
    /\ abortPending
    /\ wrPc = "send"
    /\ Len(enqueued) = 2
    /\ Len(sent) = 1
    /\ supPc = "done"

\* the writer task's socket send ends without a frame written
SendFailed == wrPc = "send" /\ wrPc' \notin {"send", "aborted", "none"} /\ sent' = sent
\* the ack channel is closed (ack_tx dropped) and drained
ClosedAndDrained == SenderDropped /\ ackq = << >>
WriterTerminated == wrPc \in {"ended", "aborted"}

\* C23, as stated: a failed socket send ends the writer task, which writes
\* nothing afterwards, and the failure ends only the writer task: the read
\* loop does not end because of it.
C23_FailureEndsOnlyWriter ==
    [][ /\ SendFailed => (wrPc' = "ended" /\ UNCHANGED <<supVars, rdVars>>)
        /\ (wrPc = "ended") => UNCHANGED wrVars
        /\ (wrPc = "ended") => (exitBy' # "enqfail") ]_vars

\* C23, amended: the writer task terminates once the ack channel is closed
\* and drained, and a failed socket send ends it at once; after a failed send
\* it writes nothing more. The failure itself stops neither the read loop nor
\* the process: the read loop keeps reading frames, but the next ack it tries
\* to enqueue is refused, and that ends the read loop: run_connection
\* returns Ok(()) without enqueueing the ack.
C23_WriterTerminates ==
    /\ [][ /\ SendFailed => (wrPc' = "ended" /\ UNCHANGED <<supVars, rdVars>>)
           /\ (wrPc = "ended") => UNCHANGED wrVars
           /\ (wrPc = "ended" /\ rdPc = "reading") => rdPc' \in {"reading", "enqueue",
                                                                 "returned", "panicked"}
           /\ (wrPc = "ended" /\ rdPc = "enqueue") =>
                 \/ UNCHANGED rdVars
                 \/ /\ rdPc' = "returned"
                    /\ exitBy' = "enqfail"
                    /\ connResult' = "Ok"
                    /\ enqueued' = enqueued
           /\ (exitBy' = "enqfail") => (wrPc = "ended")
           /\ (ClosedAndDrained /\ wrPc = "recv") => (wrPc' \in {"recv", "ended"} /\ sent' = sent)
       ]_vars
    /\ (ClosedAndDrained /\ wrPc \in {"recv", "send"}) ~> WriterTerminated

C23_Witness ==
    /\ exitBy = "enqfail"
    /\ connResult = "Ok"
    /\ wrPc = "ended"
    /\ sent = << >>
    /\ Len(enqueued) = 1
    /\ Len(handled) = 2
    /\ nframes = 2

====
